---- MODULE Spec2Model ----
(***************************************************************************)
(* The POST /ai endpoint of backend/main.py: the request model Message,    *)
(* its validation by the framework, and the handler process_ai_message,    *)
(* for several requests in flight at once.                                 *)
(*                                                                         *)
(* JSON values are records [kind, str, items]: kind is the JSON type,      *)
(* str the text of a string, items the elements of a list or the member    *)
(* values of an object.  A key that the payload does not hold maps to      *)
(* Absent.                                                                 *)
(***************************************************************************)
EXTENDS Naturals, Sequences, FiniteSets, TLC

\* ------------------------------------------------------------------ bounds
\* Requests in flight at once.
NumRequests == 3
\* Longest list inside a payload.
MaxLen == 1
\* Most recognised fields one payload sets (extra keys are not counted).
MaxKeys == 2

Requests == 1..NumRequests

\* ------------------------------------------------------------- JSON values
Str(s) == [kind |-> "string", str |-> s, items |-> <<>>]
Num == [kind |-> "number", str |-> "", items |-> <<>>]
Null == [kind |-> "null", str |-> "", items |-> <<>>]
List(xs) == [kind |-> "list", str |-> "", items |-> xs]
Obj(xs) == [kind |-> "object", str |-> "", items |-> xs]
Absent == [kind |-> "absent", str |-> "", items |-> <<>>]

\* What a list or an object of a payload may hold.
Elems == {Str("a"), Num, Obj(<<>>)}

SeqsUpTo(S, n) == UNION {[1..k -> S] : k \in 0..n}

Values ==
  {Str("hello"), Str(""), Num, Null}
    \cup {List(xs) : xs \in SeqsUpTo(Elems, MaxLen)}
    \cup {Obj(xs) : xs \in SeqsUpTo(Elems \cup {List(<<>>)}, 1)}

\* ------------------------------------------------------------ the payloads
KnownFields ==
  {"message", "mentioned_scrubber_ids", "timeline_state", "mediabin_items",
   "chat_history"}
ExtraKeys == {"unexpected_field"}
Keys == KnownFields \cup ExtraKeys

NoFields == [k \in Keys |-> Absent]

\* A JSON object with the members of f (a function from some keys to values).
Object(f) ==
  [kind |-> "object",
   fields |-> [k \in Keys |-> IF k \in DOMAIN f THEN f[k] ELSE Absent]]

\* A body that is no JSON object: a list, a string, a number or null.
NonObject(k) == [kind |-> k, fields |-> NoFields]

ExtraValues == {Str("z"), Num, Obj(<<>>)}

\* The sets of recognised fields one payload may set.
FieldSets == {T \in SUBSET KnownFields : Cardinality(T) <= MaxKeys}

\* ------------------------------------------------------- the request model
\* model_config = ConfigDict(extra="ignore")
ExtraPolicyForbid == "forbid"
ExtraPolicy == "ignore"

IsListOf(v, k) ==
  /\ v.kind = "list"
  /\ \A i \in 1..Len(v.items) : v.items[i].kind = k

\* T | None = None: the key may be missing, and null is a value of the type.
Optional(v, ok) == v = Absent \/ v.kind = "null" \/ ok

\* message: str
message_okAny(v) == v # Absent
message_ok(v) == v.kind = "string"

\* mentioned_scrubber_ids: list[str] | None = None
mentioned_scrubber_ids_ok(v) == Optional(v, IsListOf(v, "string"))

\* timeline_state: dict[str, Any] | None = None
timeline_state_ok(v) == Optional(v, v.kind = "object")

\* mediabin_items: list[dict[str, Any]] | None = None
mediabin_items_ok(v) == Optional(v, IsListOf(v, "object"))

\* chat_history: list[dict[str, Any]] | None = None
chat_history_okAny(v) == TRUE
chat_history_ok(v) == Optional(v, IsListOf(v, "object"))

FieldOk(f, v) ==
  CASE f = "message" -> message_ok(v)
    [] f = "mentioned_scrubber_ids" -> mentioned_scrubber_ids_ok(v)
    [] f = "timeline_state" -> timeline_state_ok(v)
    [] f = "mediabin_items" -> mediabin_items_ok(v)
    [] f = "chat_history" -> chat_history_ok(v)

\* The default of a field the payload does not hold (None for each optional
\* field; message has none and is never defaulted in a valid request).
FieldDefaultEmpty(f) == IF f = "mentioned_scrubber_ids" THEN List(<<>>) ELSE Null
FieldDefault(f) == Null

\* The locations the validation of a body as Message reports; empty when the
\* body is valid.
ValidationErrors(p) ==
  IF p.kind # "object"
  THEN {"body"}
  ELSE {f \in KnownFields : ~FieldOk(f, p.fields[f])}
         \cup IF ExtraPolicy = "forbid"
              THEN {k \in ExtraKeys : p.fields[k] # Absent}
              ELSE {}

\* The Message built from a valid body: the recognised fields only, a missing
\* one at its default.
Message(p) ==
  [f \in KnownFields |->
     IF p.fields[f] = Absent THEN FieldDefault(f) ELSE p.fields[f]]

NoMessage == [f \in KnownFields |-> Absent]

\* ------------------------------------------------------------ the response
HTTP_OK == 200
HTTP_UNPROCESSABLE == 422

\* The literal of the handler, its non-ASCII characters JSON-escaped.
PlaceholderMessage ==
  "\\u6b64\\u529f\\u80fd\\u5df2\\u8fc1\\u79fb\\u5230 Dify AI\\u3002\\u8bf7\\u4f7f\\u7528\\u65b0\\u7684 AI \\u52a9\\u624b\\u3002"

FunctionCallResponse(function_call, assistant_message) ==
  [function_call |-> function_call, assistant_message |-> assistant_message]

process_ai_messageEcho(request) ==
  FunctionCallResponse(Null, request["message"])
process_ai_message(request) ==
  FunctionCallResponse(Null, Str(PlaceholderMessage))

Ok(body) == [status |-> HTTP_OK, body |-> body]
Unprocessable(errs) == [status |-> HTTP_UNPROCESSABLE, body |-> [detail |-> errs]]

\* ---------------------------------------------------------------- the state
VARIABLES
  pc,            \* request -> "Idle", "Received", "Validated" or "Responded"
  payload,       \* request -> the body it arrived with
  parsed,        \* request -> the Message the handler is given
  handlerCalls,  \* request -> how many times process_ai_message ran for it
  sent           \* request -> the responses written to its client, in order

vars == <<pc, payload, parsed, handlerCalls, sent>>

\* The bodies of the concurrent specifications.
ScenarioPayloads ==
  {Object([message |-> Str("hello")]),
   Object([message |-> Str("hi"),
           mentioned_scrubber_ids |-> List(<<Str("a"), Str("b")>>),
           timeline_state |-> Obj(<<List(<<>>)>>)]),
   Object(<<>>),
   Object([message |-> Num]),
   Object([message |-> Str("x"), unexpected_field |-> Str("z")]),
   Object([message |-> Str("hello"), timeline_state |-> Str("a")]),
   Object([message |-> Str("hello"), mentioned_scrubber_ids |-> Null]),
   NonObject("list")}

Init ==
  /\ pc = [r \in Requests |-> "Idle"]
  /\ payload = [r \in Requests |-> NonObject("null")]
  /\ parsed = [r \in Requests |-> NoMessage]
  /\ handlerCalls = [r \in Requests |-> 0]
  /\ sent = [r \in Requests |-> <<>>]

\* A client posts a body to /ai.
Receive(r) ==
  /\ pc[r] = "Idle"
  /\ \E p \in ScenarioPayloads : payload' = [payload EXCEPT ![r] = p]
  /\ pc' = [pc EXCEPT ![r] = "Received"]
  /\ UNCHANGED <<parsed, handlerCalls, sent>>

\* What the framework's validation of request r's body finds.
ValidationResultSticky(r) ==
  IF \E q \in Requests : q # r /\ sent[q] # <<>> /\ sent[q][1].status = HTTP_UNPROCESSABLE
  THEN {"body"}
  ELSE ValidationErrors(payload[r])
ValidationResult(r) == ValidationErrors(payload[r])

\* What the handler returns for request r.
HandlerResultCounting(r) ==
  IF \E q \in Requests : q # r /\ handlerCalls[q] > 0
  THEN FunctionCallResponse(Null, Null)
  ELSE process_ai_message(parsed'[r])
HandlerResult(r) == process_ai_message(parsed'[r])

HandleRequestBoth(r) ==
  /\ pc[r] = "Received"
  /\ parsed' = [parsed EXCEPT ![r] = Message(payload[r])]
  /\ handlerCalls' = [handlerCalls EXCEPT ![r] = @ + 1]
  /\ sent' = [sent EXCEPT ![r] =
               IF ValidationResult(r) = {}
               THEN Append(@, Ok(HandlerResult(r)))
               ELSE Append(Append(@, Unprocessable(ValidationResult(r))),
                           Ok(HandlerResult(r)))]
  /\ pc' = [pc EXCEPT ![r] = "Responded"]
  /\ UNCHANGED payload

\* The whole of one request: the body is validated as Message and, when it
\* is valid, process_ai_message runs and its envelope is the response.
HandleRequest(r) ==
  /\ pc[r] = "Received"
  /\ IF ValidationResult(r) = {}
     THEN /\ parsed' = [parsed EXCEPT ![r] = Message(payload[r])]
          /\ handlerCalls' = [handlerCalls EXCEPT ![r] = @ + 1]
          /\ sent' = [sent EXCEPT ![r] = Append(@, Ok(HandlerResult(r)))]
     ELSE /\ sent' = [sent EXCEPT ![r] = Append(@, Unprocessable(ValidationResult(r)))]
          /\ UNCHANGED <<parsed, handlerCalls>>
  /\ pc' = [pc EXCEPT ![r] = "Responded"]
  /\ UNCHANGED payload

Next == \E r \in Requests : Receive(r) \/ HandleRequest(r)

Spec == Init /\ [][Next]_vars

\* The event loop runs every request it has received.
FairSpec == Spec /\ \A r \in Requests : WF_vars(HandleRequest(r))

\* ------------------------------------------- requests on separate threads
\* The same endpoint when the server may switch to another request between
\* the validation of a body and the call of the handler.
Validate(r) ==
  /\ pc[r] = "Received"
  /\ IF ValidationResult(r) = {}
     THEN /\ parsed' = [parsed EXCEPT ![r] = Message(payload[r])]
          /\ pc' = [pc EXCEPT ![r] = "Validated"]
          /\ UNCHANGED sent
     ELSE /\ sent' = [sent EXCEPT ![r] = Append(@, Unprocessable(ValidationResult(r)))]
          /\ pc' = [pc EXCEPT ![r] = "Responded"]
          /\ UNCHANGED parsed
  /\ UNCHANGED <<payload, handlerCalls>>

CallHandler(r) ==
  /\ pc[r] = "Validated"
  /\ handlerCalls' = [handlerCalls EXCEPT ![r] = @ + 1]
  /\ sent' = [sent EXCEPT ![r] = Append(@, Ok(HandlerResult(r)))]
  /\ pc' = [pc EXCEPT ![r] = "Responded"]
  /\ UNCHANGED <<payload, parsed>>

NextFine == \E r \in Requests : Receive(r) \/ Validate(r) \/ CallHandler(r)

SpecFine == Init /\ [][NextFine]_vars

\* ------------------------------------------------ one request, any payload
InitParse ==
  /\ pc = [r \in Requests |-> IF r = 1 THEN "Received" ELSE "Idle"]
  /\ \/ \E k \in {"list", "string", "number", "null"} :
          payload = [r \in Requests |-> NonObject(IF r = 1 THEN k ELSE "null")]
     \/ \E S \in FieldSets, E \in SUBSET ExtraKeys :
          \E f \in [S -> Values], g \in [E -> ExtraValues] :
            payload = [r \in Requests |->
                         IF r = 1 THEN Object(f @@ g) ELSE NonObject("null")]
  /\ parsed = [r \in Requests |-> NoMessage]
  /\ handlerCalls = [r \in Requests |-> 0]
  /\ sent = [r \in Requests |-> <<>>]

NextParse == \E r \in Requests : HandleRequest(r)

SpecParse == InitParse /\ [][NextParse]_vars

\* ------------------------------------------------------------- the claims
Responded(r) == pc[r] = "Responded"
Response(r) == sent[r][1]
Accepted(r) == Responded(r) /\ Len(sent[r]) = 1 /\ Response(r).status = HTTP_OK
Rejected(r) ==
  Responded(r) /\ Len(sent[r]) = 1 /\ Response(r).status = HTTP_UNPROCESSABLE
IsEnvelope(body) == DOMAIN body = {"function_call", "assistant_message"}
PlaceholderEnvelope ==
  [function_call |-> Null, assistant_message |-> Str(PlaceholderMessage)]
TextMessage(p) == p.kind = "object" /\ p.fields["message"].kind = "string"

\* C1: a payload whose message is missing or is not text (a number, null, a
\* list, an object; a body that is no object holds no message) is answered
\* with the 422 validation error alone: no envelope, and the handler never ran.
C1_RequiredMessage ==
  \A r \in Requests :
    (Responded(r) /\ ~TextMessage(payload[r])) =>
      /\ Rejected(r)
      /\ ~IsEnvelope(Response(r).body)
      /\ handlerCalls[r] = 0

C1_Witness ==
  \E r \in Requests :
    /\ Rejected(r)
    /\ payload[r].kind = "object"
    /\ payload[r].fields["message"] = Num
    /\ payload[r].fields["chat_history"] = List(<<>>)

\* C2 (as claimed): every payload whose message is present and text is answered
\* 200 with the envelope, whatever the shape of the other fields,
\* mentioned_scrubber_ids included.
C2_OnlyMessageIsChecked ==
  \A r \in Requests :
    (Responded(r) /\ TextMessage(payload[r])) =>
      /\ Accepted(r)
      /\ IsEnvelope(Response(r).body)

\* C3 (as claimed): with a text message and a well-typed or missing
\* mentioned_scrubber_ids, any values of timeline_state, mediabin_items and
\* chat_history give the response that the payload without them gives.
C3_OpaqueFieldsUnchecked ==
  \A r \in Requests :
    (/\ Responded(r)
     /\ TextMessage(payload[r])
     /\ payload[r].fields["mentioned_scrubber_ids"].kind \in {"absent", "null"})
      => sent[r] = <<Ok(PlaceholderEnvelope)>>

\* The payload without its extra top-level keys.
WithoutExtras(p) ==
  [p EXCEPT !.fields = [k \in Keys |-> IF k \in ExtraKeys THEN Absent ELSE @[k]]]

\* What a request that arrives alone with body p is answered.
SoloOutcome(p) ==
  IF ValidationErrors(p) = {}
  THEN <<Ok(process_ai_message(Message(p)))>>
  ELSE <<Unprocessable(ValidationErrors(p))>>

C5_FixedEnvelope ==
  /\ PlaceholderMessage # ""
  /\ \A r \in Requests :
       (Responded(r) /\ ValidationErrors(payload[r]) = {}) =>
         /\ Accepted(r)
         /\ Response(r).body.function_call = Null
         /\ Response(r).body.assistant_message = Str(PlaceholderMessage)

C5_Witness ==
  \E r \in Requests :
    /\ Accepted(r)
    /\ payload[r].fields["message"] = Str("")
    /\ payload[r].fields["mediabin_items"] = List(<<Obj(<<>>)>>)

\* C6: two requests with the same valid body get the same response, whatever
\* the gateway handled before, between or beside them.
C6_SameRequestSameResponse ==
  \A r, q \in Requests :
    (/\ Responded(r) /\ Responded(q)
     /\ payload[r] = payload[q]
     /\ ValidationErrors(payload[r]) = {})
      => sent[r] = sent[q]

C6_Witness ==
  \E r, q, o \in Requests :
    /\ r # q /\ o # r /\ o # q
    /\ Accepted(r) /\ Accepted(q) /\ Rejected(o)
    /\ payload[r] = payload[q]

\* C7: under every interleaving of the validation and handler steps of the
\* requests in flight, each answered request has the one response it would
\* have got alone, a request not yet answered has been sent nothing, and
\* the Message of a request is its own body's.
C7_NoSharedState ==
  \A r \in Requests :
    /\ Responded(r) => sent[r] = SoloOutcome(payload[r])
    /\ ~Responded(r) => sent[r] = <<>>
    /\ pc[r] = "Validated" => parsed[r] = Message(payload[r])

C7_Witness ==
  \E r, q, o \in Requests :
    /\ Rejected(r)
    /\ pc[q] = "Validated"
    /\ Accepted(o)

\* The outcome of a request: none before it is responded, then exactly one
\* response, 200 with the envelope or 422 without it; the handler ran (once)
\* exactly for the requests whose body passed validation.
C8_OneOutcome ==
  \A r \in Requests :
    /\ pc[r] \in {"Idle", "Received", "Responded"}
    /\ Responded(r) =>
         /\ Len(sent[r]) = 1
         /\ Response(r).status \in {HTTP_OK, HTTP_UNPROCESSABLE}
         /\ IsEnvelope(Response(r).body) <=> Response(r).status = HTTP_OK
         /\ handlerCalls[r] = IF Response(r).status = HTTP_OK THEN 1 ELSE 0
         /\ handlerCalls[r] = 1 <=> ValidationErrors(payload[r]) = {}
    /\ ~Responded(r) => sent[r] = <<>> /\ handlerCalls[r] = 0

\* The steps of a request: Received to Responded at once, Responded for good.
C8_Step ==
  \A r \in Requests :
    /\ pc[r] = "Received" => pc'[r] \in {"Received", "Responded"}
    /\ Responded(r) => Responded(r)' /\ sent'[r] = sent[r]

\* C8: a received request is eventually responded; it goes from Received to
\* Responded in one step and stays there with its response unchanged; it has
\* exactly one response, 200 or 422, never both, and the handler ran exactly
\* for the requests whose body passed validation.
C8_Lifecycle ==
  /\ []C8_OneOutcome
  /\ [][C8_Step]_vars
  /\ \A r \in Requests : (pc[r] = "Received") ~> Responded(r)

C8_Witness ==
  \E r, q \in Requests :
    /\ Rejected(r) /\ handlerCalls[r] = 0
    /\ Accepted(q) /\ handlerCalls[q] = 1

\* C9 (as claimed): a valid request without mentioned_scrubber_ids has the
\* empty sequence as its parsed mentioned ids.
C9_AbsentIdsParsedEmpty ==
  \A r \in Requests :
    (Accepted(r) /\ payload[r].fields["mentioned_scrubber_ids"] = Absent) =>
      parsed[r]["mentioned_scrubber_ids"] = List(<<>>)

\* C9 (amended): a missing mentioned_scrubber_ids never fails validation, and
\* the parsed mentioned ids of a valid request without the field are null (the
\* field's default), as for an explicit null.
C9_AbsentIdsParsedNull ==
  \A r \in Requests :
    (Responded(r) /\ payload[r].fields["mentioned_scrubber_ids"] = Absent) =>
      /\ Rejected(r) => "mentioned_scrubber_ids" \notin Response(r).body.detail
      /\ Accepted(r) =>
           parsed[r]["mentioned_scrubber_ids"] = Null

C9_Witness ==
  \E r \in Requests :
    /\ Accepted(r)
    /\ payload[r].fields["mentioned_scrubber_ids"] = Absent
    /\ payload[r].fields["chat_history"] # Absent
    /\ parsed[r]["mentioned_scrubber_ids"] = Null

\* The payloads C10 says the request model accepts.
NullOrAbsent(v) == v.kind \in {"absent", "null"}
AllItems(v, k) == {v.items[i].kind : i \in 1..Len(v.items)} \subseteq {k}
AcceptedShape(p) ==
  /\ p.kind = "object"
  /\ p.fields["message"].kind = "string"
  /\ \/ NullOrAbsent(p.fields["mentioned_scrubber_ids"])
     \/ /\ p.fields["mentioned_scrubber_ids"].kind = "list"
        /\ AllItems(p.fields["mentioned_scrubber_ids"], "string")
  /\ \/ NullOrAbsent(p.fields["timeline_state"])
     \/ p.fields["timeline_state"].kind = "object"
  /\ \A f \in {"mediabin_items", "chat_history"} :
       \/ NullOrAbsent(p.fields[f])
       \/ p.fields[f].kind = "list" /\ AllItems(p.fields[f], "object")

====
